---- MODULE Spec2Model ----
(***************************************************************************)
(* Model of the dom-dimensions helpers: outerWidth, outerHeight,           *)
(* innerDimensions, innerWidth, innerHeight and cssDimensionsToPx.          *)
(*                                                                         *)
(* Numbers are fixed-point tenths of a CSS pixel, with a separate          *)
(* not-a-number value.  CSS text (computed style values, the two inputs of  *)
(* cssDimensionsToPx) is a sequence of one-character strings, so that       *)
(* parseFloat and the platform's length resolution are computed and not     *)
(* assumed.                                                                 *)
(***************************************************************************)
EXTENDS Integers, Sequences, FiniteSets, TLC

VARIABLES
  el,        \* the element handed to the measurement functions
  last,      \* the last measurement call on el: function, argument, result, style reads
  tree,      \* ids of the nodes attached to the render tree
  body,      \* TRUE iff document.body is not null
  ambient,   \* what the document's style sheets give every div
  impl,      \* which cssDimensionsToPx of the repository is running
  pc,        \* position inside cssDimensionsToPx
  div,       \* the probe element of the running call
  before,    \* the render tree when the running call started
  rect,      \* the rectangle read from the probe
  result,    \* the pair cssDimensionsToPx returned
  error,     \* the error cssDimensionsToPx threw
  args,      \* the two strings the running call was given
  calls      \* number of cssDimensionsToPx calls so far

vars == <<el, last, tree, body, ambient, impl, pc, div, args, before, rect, result, error, calls>>

probeVars == <<tree, body, ambient, impl, pc, div, args, before, rect, result, error, calls>>

(***************************************************************************)
(* Bounds                                                                  *)
(***************************************************************************)
MaxStyled == 3   \* style properties of el that differ from "0px"
MaxNodes == 2    \* nodes in the render tree before any call
MaxCalls == 2    \* cssDimensionsToPx calls in one behaviour

(***************************************************************************)
(* JavaScript numbers                                                      *)
(***************************************************************************)
NaN == [nan |-> TRUE, v |-> 0]
Num(n) == [nan |-> FALSE, v |-> n]
Px(n) == Num(n * 10)
Plus(a, b) == IF a.nan \/ b.nan THEN NaN ELSE Num(a.v + b.v)
Minus(a, b) == IF a.nan \/ b.nan THEN NaN ELSE Num(a.v - b.v)

(***************************************************************************)
(* CSS text                                                                *)
(***************************************************************************)
S_empty == << >>
S_0 == <<"0">>
S_0px == <<"0", "p", "x">>
S_4px == <<"4", "p", "x">>
S_8px == <<"8", "p", "x">>
S_3_5px == <<"3", ".", "5", "p", "x">>
S_neg2px == <<"-", "2", "p", "x">>
S_auto == <<"a", "u", "t", "o">>
S_10px == <<"1", "0", "p", "x">>
S_20px == <<"2", "0", "p", "x">>
S_1in == <<"1", "i", "n">>
S_bogus == <<"b", "o", "g", "u", "s">>

Digits == {"0", "1", "2", "3", "4", "5", "6", "7", "8", "9"}
DigitVal(c) ==
  CASE c = "0" -> 0 [] c = "1" -> 1 [] c = "2" -> 2 [] c = "3" -> 3
    [] c = "4" -> 4 [] c = "5" -> 5 [] c = "6" -> 6 [] c = "7" -> 7
    [] c = "8" -> 8 [] c = "9" -> 9

RECURSIVE SkipSpace(_, _)
SkipSpace(s, i) ==
  IF i <= Len(s) /\ s[i] = " " THEN SkipSpace(s, i + 1) ELSE i

RECURSIVE DigitsEnd(_, _)
DigitsEnd(s, i) ==
  IF i <= Len(s) /\ s[i] \in Digits THEN DigitsEnd(s, i + 1) ELSE i

RECURSIVE IntVal(_, _, _)
IntVal(s, i, j) ==
  IF j <= i THEN 0 ELSE IntVal(s, i, j - 1) * 10 + DigitVal(s[j - 1])

\* The longest numeric prefix of s: where it starts and ends, its sign and
\* its value in tenths (digits after the first decimal are dropped).
NumberPrefix(s) ==
  LET i0 == SkipSpace(s, 1)
      signed == i0 <= Len(s) /\ s[i0] \in {"-", "+"}
      neg == i0 <= Len(s) /\ s[i0] = "-"
      i1 == IF signed THEN i0 + 1 ELSE i0
      i2 == DigitsEnd(s, i1)
      dot == i2 <= Len(s) /\ s[i2] = "."
      i3 == IF dot THEN DigitsEnd(s, i2 + 1) ELSE i2
      hasFrac == dot /\ i3 > i2 + 1
      ok == i2 > i1 \/ hasFrac
      tenths == IntVal(s, i1, i2) * 10 + (IF hasFrac THEN DigitVal(s[i2 + 1]) ELSE 0)
  IN  [ok |-> ok,
       stop |-> IF ok THEN (IF hasFrac THEN i3 ELSE i2) ELSE i0,
       v |-> IF neg THEN 0 - tenths ELSE tenths]

ParseFloat(s) ==
  LET p == NumberPrefix(s) IN IF p.ok THEN Num(p.v) ELSE NaN

(***************************************************************************)
(* The measured element                                                    *)
(***************************************************************************)
Spacers == {"margin", "padding"}
Directions == {"top", "right", "bottom", "left"}
PropName(spacer, direction) == spacer \o "-" \o direction
Props == {PropName(sp, d) : sp \in Spacers, d \in Directions}

MarginValues == {S_0px, S_4px, S_neg2px, S_auto}
PaddingValues == {S_0px, S_3_5px, S_8px, S_empty}
ValuesOf(prop) ==
  IF prop \in {PropName("margin", d) : d \in Directions}
  THEN MarginValues ELSE PaddingValues
RectSizes == {Px(5), Px(12)}

Styled(style) == Cardinality({p \in Props : style[p] # S_0px})

\* el.getBoundingClientRect(): the border-box rectangle the platform reports
getBoundingClientRect(e) == e.rect

\* getComputedStyle(el).getPropertyValue(name): "" for a property that is not there
getPropertyValue(e, name) ==
  IF name \in DOMAIN e.style THEN e.style[name] ELSE S_empty

\* a default parameter `= true` applies when the argument is omitted
Args == {"omitted", "true", "false"}
DefaultTrue(arg) == IF arg = "omitted" THEN TRUE ELSE arg = "true"

(***************************************************************************)
(* The measurement functions.  Each returns its result and the list of     *)
(* computed-style properties it read.                                      *)
(***************************************************************************)
measureGap_firstTwice(e, spacer, directions) ==
  LET n0 == PropName(spacer, directions[1])
  IN  [ret |-> Plus(ParseFloat(getPropertyValue(e, n0)),
                    ParseFloat(getPropertyValue(e, n0))),
       reads |-> <<n0, n0>>]

measureGap_orZero(e, spacer, directions) ==
  LET n0 == PropName(spacer, directions[1])
      n1 == PropName(spacer, directions[2])
      a == ParseFloat(getPropertyValue(e, n0))
      b == ParseFloat(getPropertyValue(e, n1))
  IN  [ret |-> Plus(IF a.nan THEN Num(0) ELSE a, IF b.nan THEN Num(0) ELSE b),
       reads |-> <<n0, n1>>]

measureGap(e, spacer, directions) ==
  LET n0 == PropName(spacer, directions[1])
      n1 == PropName(spacer, directions[2])
  IN  [ret |-> Plus(ParseFloat(getPropertyValue(e, n0)),
                    ParseFloat(getPropertyValue(e, n1))),
       reads |-> <<n0, n1>>]

outerWidth(e, arg) ==
  LET width == getBoundingClientRect(e).width
      marginX == measureGap(e, "margin", <<"left", "right">>)
  IN  IF ~DefaultTrue(arg) THEN [ret |-> width, reads |-> << >>]
      ELSE [ret |-> Plus(width, marginX.ret), reads |-> marginX.reads]

outerHeight(e, arg) ==
  LET height == getBoundingClientRect(e).height
      marginY == measureGap(e, "margin", <<"top", "bottom">>)
  IN  IF ~DefaultTrue(arg) THEN [ret |-> height, reads |-> << >>]
      ELSE [ret |-> Plus(height, marginY.ret), reads |-> marginY.reads]

innerDimensions(e, arg) ==
  LET r == getBoundingClientRect(e)
      paddingX == measureGap(e, "padding", <<"left", "right">>)
      paddingY == measureGap(e, "padding", <<"top", "bottom">>)
  IN  IF ~DefaultTrue(arg) THEN [ret |-> <<r.width, r.height>>, reads |-> << >>]
      ELSE [ret |-> <<Minus(r.width, paddingX.ret), Minus(r.height, paddingY.ret)>>,
            reads |-> paddingX.reads \o paddingY.reads]

innerWidth_otherAxis(e, arg) ==
  LET width == getBoundingClientRect(e).width
      padding == measureGap(e, "padding", <<"top", "bottom">>)
  IN  IF ~DefaultTrue(arg) THEN [ret |-> width, reads |-> << >>]
      ELSE [ret |-> Minus(width, padding.ret), reads |-> padding.reads]

innerWidth_height(e, arg) ==
  LET width == getBoundingClientRect(e).height
      padding == measureGap(e, "padding", <<"left", "right">>)
  IN  IF ~DefaultTrue(arg) THEN [ret |-> width, reads |-> << >>]
      ELSE [ret |-> Minus(width, padding.ret), reads |-> padding.reads]

innerWidth_viaDimensions(e, arg) ==
  LET d == innerDimensions(e, arg)
  IN  [ret |-> d.ret[1], reads |-> d.reads]

innerWidth(e, arg) ==
  LET width == getBoundingClientRect(e).width
      padding == measureGap(e, "padding", <<"left", "right">>)
  IN  IF ~DefaultTrue(arg) THEN [ret |-> width, reads |-> << >>]
      ELSE [ret |-> Minus(width, padding.ret), reads |-> padding.reads]

innerHeight_clamped(e, arg) ==
  LET height == getBoundingClientRect(e).height
      padding == measureGap(e, "padding", <<"top", "bottom">>)
      d == Minus(height, padding.ret)
  IN  IF ~DefaultTrue(arg) THEN [ret |-> height, reads |-> << >>]
      ELSE [ret |-> IF ~d.nan /\ d.v < 0 THEN Num(0) ELSE d, reads |-> padding.reads]

innerHeight(e, arg) ==
  LET height == getBoundingClientRect(e).height
      padding == measureGap(e, "padding", <<"top", "bottom">>)
  IN  IF ~DefaultTrue(arg) THEN [ret |-> height, reads |-> << >>]
      ELSE [ret |-> Minus(height, padding.ret), reads |-> padding.reads]

\* last.ret is the sequence of the numbers returned: one for a single-axis
\* function, two (width, height) for innerDimensions
NoCall == [fn |-> "none", arg |-> "omitted", flag |-> FALSE, ret |-> << >>, reads |-> << >>]
Called(fn, arg, out) ==
  [fn |-> fn, arg |-> arg, flag |-> DefaultTrue(arg),
   ret |-> IF fn = "innerDimensions" THEN out.ret ELSE <<out.ret>>,
   reads |-> out.reads]

(***************************************************************************)
(* The probe of cssDimensionsToPx: state before any call                   *)
(***************************************************************************)
\* what document.createElement('div') returns: no inline style set
NoStyle ==
  [width |-> S_empty, height |-> S_empty, position |-> "", visibility |-> "",
   padding |-> S_empty, margin |-> S_empty, top |-> S_empty, left |-> S_empty,
   boxSizing |-> ""]
createElement(id) == [id |-> id, style |-> NoStyle]
NoDiv == createElement(0)
NoRect == [width |-> NaN, height |-> NaN]
NoResult == << >>
DefaultAmbient == [border |-> 0, padding |-> S_0px, boxSizing |-> "content-box"]

ProbeIdle ==
  /\ tree = {}
  /\ body = TRUE
  /\ ambient = DefaultAmbient
  /\ impl = "index.ts"
  /\ pc = "idle"
  /\ div = NoDiv
  /\ args = << >>
  /\ before = {}
  /\ rect = NoRect
  /\ result = NoResult
  /\ error = "none"
  /\ calls = 0

(***************************************************************************)
(* Specification of the measurement functions                              *)
(***************************************************************************)
InitMeasure ==
  /\ \E w \in RectSizes, h \in RectSizes :
       el = [rect |-> [width |-> w, height |-> h], style |-> [p \in Props |-> S_0px]]
  /\ last = NoCall
  /\ ProbeIdle

\* the page restyles the element: one computed value changes
Restyle ==
  /\ \E p \in Props : \E val \in ValuesOf(p) :
       /\ val # el.style[p]
       /\ Styled([el.style EXCEPT ![p] = val]) <= MaxStyled
       /\ el' = [el EXCEPT !.style[p] = val]
  /\ last' = NoCall
  /\ UNCHANGED probeVars

OuterWidth ==
  /\ \E arg \in Args : last' = Called("outerWidth", arg, outerWidth(el, arg))
  /\ UNCHANGED <<el, tree, body, ambient, impl, pc, div, args, before, rect, result, error, calls>>

OuterHeight ==
  /\ \E arg \in Args : last' = Called("outerHeight", arg, outerHeight(el, arg))
  /\ UNCHANGED <<el, tree, body, ambient, impl, pc, div, args, before, rect, result, error, calls>>

InnerDimensions ==
  /\ \E arg \in Args : last' = Called("innerDimensions", arg, innerDimensions(el, arg))
  /\ UNCHANGED <<el, tree, body, ambient, impl, pc, div, args, before, rect, result, error, calls>>

InnerWidth ==
  /\ \E arg \in Args : last' = Called("innerWidth", arg, innerWidth(el, arg))
  /\ UNCHANGED <<el, tree, body, ambient, impl, pc, div, args, before, rect, result, error, calls>>

InnerHeight ==
  /\ \E arg \in Args : last' = Called("innerHeight", arg, innerHeight(el, arg))
  /\ UNCHANGED <<el, tree, body, ambient, impl, pc, div, args, before, rect, result, error, calls>>

NextMeasure ==
  \/ Restyle
  \/ OuterWidth
  \/ OuterHeight
  \/ InnerDimensions
  \/ InnerWidth
  \/ InnerHeight

SpecMeasure == InitMeasure /\ [][NextMeasure]_vars

(***************************************************************************)
(* Properties of the measurement functions                                 *)
(***************************************************************************)
StyleNum(p) == ParseFloat(el.style[p])
Numeric(p) == ~StyleNum(p).nan
MeasureFns == {"outerWidth", "outerHeight", "innerDimensions", "innerWidth", "innerHeight"}

C6_SingleAxisAgreesWithDimensions ==
  /\ last.fn = "innerWidth" => last.ret[1] = innerDimensions(el, last.arg).ret[1]
  /\ last.fn = "innerHeight" => last.ret[1] = innerDimensions(el, last.arg).ret[2]
  /\ last.fn = "innerDimensions" =>
        /\ last.ret[1] = innerWidth(el, last.arg).ret
        /\ last.ret[2] = innerHeight(el, last.arg).ret

C6_Witness ==
  /\ last.fn = "innerWidth" /\ last.flag
  /\ ~Numeric("padding-top")
  /\ el.style["padding-left"] = S_3_5px
  /\ last.ret[1] = Num(el.rect.width.v - 35)

\* C7: when the four margins and the four paddings are zero, outerWidth and
\* innerWidth return the border-box width for either value of their flag.
AllZero == \A p \in Props : StyleNum(p) = Num(0)

C7_ZeroSpacersGiveBorderBoxWidth ==
  (AllZero /\ last.fn \in {"outerWidth", "innerWidth"}) => last.ret[1] = el.rect.width

C7_Witness ==
  /\ AllZero /\ last.fn = "innerWidth" /\ last.flag
  /\ el.rect.width # el.rect.height
  /\ last.ret[1] = el.rect.width

\* C8: a style value that does not parse as a number makes the result
\* component of its axis not-a-number and leaves the other component alone;
\* every call still returns a value.
OwnAxisNumeric(spacer, d0, d1) ==
  Numeric(PropName(spacer, d0)) /\ Numeric(PropName(spacer, d1))

C8_MalformedStyleGivesNaN ==
  /\ last.fn = "outerWidth" => (last.ret[1].nan <=> (last.flag /\ ~OwnAxisNumeric("margin", "left", "right")))
  /\ last.fn = "outerHeight" => (last.ret[1].nan <=> (last.flag /\ ~OwnAxisNumeric("margin", "top", "bottom")))
  /\ last.fn = "innerWidth" => (last.ret[1].nan <=> (last.flag /\ ~OwnAxisNumeric("padding", "left", "right")))
  /\ last.fn = "innerHeight" => (last.ret[1].nan <=> (last.flag /\ ~OwnAxisNumeric("padding", "top", "bottom")))
  /\ last.fn = "innerDimensions" =>
        /\ last.ret[1].nan <=> (last.flag /\ ~OwnAxisNumeric("padding", "left", "right"))
        /\ last.ret[2].nan <=> (last.flag /\ ~OwnAxisNumeric("padding", "top", "bottom"))

C8_Witness ==
  /\ last.fn = "innerDimensions" /\ last.flag
  /\ el.style["padding-top"] = S_empty
  /\ last.ret[2].nan /\ ~last.ret[1].nan

\* C9: with usePadding true the inner functions return border-box minus the
\* padding sum of the axis, also when that is negative.
C9_InnerIsBorderBoxMinusPaddingUnclamped ==
  /\ (last.fn = "innerWidth" /\ last.flag /\ OwnAxisNumeric("padding", "left", "right")) =>
        last.ret[1] = Num(el.rect.width.v - (StyleNum("padding-left").v + StyleNum("padding-right").v))
  /\ (last.fn = "innerHeight" /\ last.flag /\ OwnAxisNumeric("padding", "top", "bottom")) =>
        last.ret[1] = Num(el.rect.height.v - (StyleNum("padding-top").v + StyleNum("padding-bottom").v))
  /\ (last.fn = "innerDimensions" /\ last.flag /\ OwnAxisNumeric("padding", "left", "right")) =>
        last.ret[1] = Num(el.rect.width.v - (StyleNum("padding-left").v + StyleNum("padding-right").v))
  /\ (last.fn = "innerDimensions" /\ last.flag /\ OwnAxisNumeric("padding", "top", "bottom")) =>
        last.ret[2] = Num(el.rect.height.v - (StyleNum("padding-top").v + StyleNum("padding-bottom").v))

C9_Witness ==
  /\ last.fn = "innerHeight" /\ last.flag
  /\ StyleNum("padding-top").v + StyleNum("padding-bottom").v > el.rect.height.v
  /\ ~last.ret[1].nan /\ last.ret[1].v < 0

\* C10: a single-axis function reads the two properties of its own axis and
\* spacer and nothing else, reads nothing when its flag is false, and no
\* measurement call changes the element or the render tree.
Range(q) == {q[i] : i \in DOMAIN q}

ReadsOwnAxis ==
  /\ last.fn = "innerWidth" =>
        Range(last.reads) = (IF last.flag THEN {"padding-left", "padding-right"} ELSE {})
  /\ last.fn = "innerHeight" =>
        Range(last.reads) = (IF last.flag THEN {"padding-top", "padding-bottom"} ELSE {})
  /\ last.fn = "outerWidth" =>
        Range(last.reads) = (IF last.flag THEN {"margin-left", "margin-right"} ELSE {})
  /\ last.fn = "outerHeight" =>
        Range(last.reads) = (IF last.flag THEN {"margin-top", "margin-bottom"} ELSE {})
  /\ (last.fn = "innerDimensions" /\ ~last.flag) => last.reads = << >>

C10_ReadsOwnAxisAndChangesNothing ==
  [][(last'.fn \in MeasureFns /\ last' # last) =>
        (el' = el /\ tree' = tree /\ ReadsOwnAxis')]_vars

C10_Witness ==
  /\ last.fn = "innerWidth" /\ last.flag
  /\ last.reads = <<"padding-left", "padding-right">>
  /\ Styled(el.style) > 0

(***************************************************************************)
(* cssDimensionsToPx: the platform services it uses                        *)
(***************************************************************************)
\* The platform's reading of a CSS <length>: a number and a unit.  A
\* unitless number is a length only when it is zero; anything else is not a
\* length.  The value is in tenths of a pixel.
ResolveLength(s) ==
  LET p == NumberPrefix(s)
      unit == IF p.ok THEN SubSeq(s, p.stop, Len(s)) ELSE s
  IN  IF ~p.ok THEN [valid |-> FALSE, v |-> 0]
      ELSE IF unit = <<"p", "x">> THEN [valid |-> TRUE, v |-> p.v]
      ELSE IF unit = <<"i", "n">> THEN [valid |-> TRUE, v |-> p.v * 96]
      ELSE IF unit = << >> /\ p.v = 0 THEN [valid |-> TRUE, v |-> 0]
      ELSE [valid |-> FALSE, v |-> 0]

\* div.style.width = text (and height): a declaration the platform cannot
\* parse, or a negative size, is dropped and the property stays as it was
SetSize(old, text) ==
  IF ResolveLength(text).valid /\ ResolveLength(text).v >= 0 THEN text ELSE old

\* what the document's style sheets may give every div
Ambients ==
  [border : {0, 10}, padding : {S_0px, S_4px}, boxSizing : {"content-box", "border-box"}]

\* the cascade: an inline declaration wins over the style sheets
UsedPadding(d, amb) ==
  ResolveLength(IF d.style.padding # S_empty THEN d.style.padding ELSE amb.padding).v
UsedBoxSizing(d, amb) ==
  IF d.style.boxSizing # "" THEN d.style.boxSizing ELSE amb.boxSizing
UsedBorder(d, amb) == amb.border
\* an absolutely positioned empty box with width: auto shrinks to nothing
UsedSize(text) == IF text = S_empty THEN 0 ELSE ResolveLength(text).v

BorderBox(size, d, amb) ==
  LET extra == 2 * UsedPadding(d, amb) + 2 * UsedBorder(d, amb)
  IN  IF UsedBoxSizing(d, amb) = "content-box" THEN size + extra
      ELSE IF size > extra THEN size ELSE extra

\* div.getBoundingClientRect(): the border box of the probe as laid out in
\* the document; an element outside the render tree has an empty box
ProbeRect(d, t, amb) ==
  IF d.id \notin t THEN [width |-> Num(0), height |-> Num(0)]
  ELSE [width |-> Num(BorderBox(UsedSize(d.style.width), d, amb)),
        height |-> Num(BorderBox(UsedSize(d.style.height), d, amb))]

appendChild(t, id) == t \cup {id}

removeChild_noop(t, id) == t

removeChild(t, id) == t \ {id}

(***************************************************************************)
(* cssDimensionsToPx                                                       *)
(***************************************************************************)
Impls == {"index.ts", "part_000", "part_001"}
\* part_000 tests document.body against null before it uses it
Guarded(i) == i = "part_000"
Unavailable == "DOM is unavailable"
Lengths == {S_10px, S_20px, S_1in, S_bogus}

\* the probe as the function styles it before attaching it
styledDiv(id, width, height) ==
  LET d == createElement(id)
  IN  [d EXCEPT !.style =
         [width |-> SetSize(d.style.width, width),
          height |-> SetSize(d.style.height, height),
          position |-> "absolute",
          visibility |-> "hidden",
          padding |-> S_0,
          margin |-> S_0,
          top |-> S_0,
          left |-> S_0,
          boxSizing |-> "content-box"]]

InitProbe ==
  /\ el = [rect |-> [width |-> Px(5), height |-> Px(5)], style |-> [p \in Props |-> S_0px]]
  /\ last = NoCall
  /\ \E k \in 0..MaxNodes : tree = 1..k
  /\ body \in BOOLEAN
  /\ ambient \in Ambients
  /\ impl = "index.ts"
  /\ pc = "idle"
  /\ div = NoDiv
  /\ args = << >>
  /\ before = {}
  /\ rect = NoRect
  /\ result = NoResult
  /\ error = "none"
  /\ calls = 0

\* the call and the creation and styling of the probe
Call ==
  /\ pc \in {"idle", "returned", "thrown"}
  /\ calls < MaxCalls
  /\ \E i \in Impls, width \in Lengths, height \in Lengths :
       /\ impl' = i
       /\ args' = <<width, height>>
       /\ div' = styledDiv(MaxNodes + calls + 1, width, height)
  /\ before' = tree
  /\ rect' = NoRect
  /\ result' = NoResult
  /\ error' = "none"
  /\ calls' = calls + 1
  /\ pc' = "created"
  /\ UNCHANGED <<el, last, tree, body, ambient>>

\* document.body.appendChild(div), behind the null test where there is one
Attach ==
  /\ pc = "created"
  /\ IF Guarded(impl) /\ ~body
       THEN /\ error' = Unavailable
            /\ pc' = "thrown"
            /\ UNCHANGED tree
     ELSE IF ~body
       THEN /\ error' = "TypeError"
            /\ pc' = "thrown"
            /\ UNCHANGED tree
     ELSE /\ tree' = appendChild(tree, div.id)
          /\ pc' = "attached"
          /\ UNCHANGED error
  /\ UNCHANGED <<el, last, body, ambient, impl, div, args, before, rect, result, calls>>

\* div.getBoundingClientRect()
Measure ==
  /\ pc = "attached"
  /\ rect' = ProbeRect(div, tree, ambient)
  /\ pc' = "measured"
  /\ UNCHANGED <<el, last, tree, body, ambient, impl, div, args, before, result, error, calls>>

\* div.getBoundingClientRect() in an environment that does not provide it:
\* the call throws and the function is left at that statement
MeasureThrows ==
  /\ pc = "attached"
  /\ error' = "TypeError"
  /\ pc' = "thrown"
  /\ UNCHANGED <<el, last, tree, body, ambient, impl, div, args, before, rect, result, calls>>

\* document.body.removeChild(div), behind the null test where there is one,
\* and the return of the pair
Remove ==
  /\ pc = "measured"
  /\ IF Guarded(impl) /\ ~body
       THEN /\ error' = Unavailable
            /\ pc' = "thrown"
            /\ UNCHANGED <<tree, result>>
     ELSE /\ tree' = removeChild(tree, div.id)
          /\ result' = <<rect.width, rect.height>>
          /\ pc' = "returned"
          /\ UNCHANGED error
  /\ UNCHANGED <<el, last, body, ambient, impl, div, args, before, rect, calls>>

NextProbe ==
  \/ Call
  \/ Attach
  \/ Measure
  \/ MeasureThrows
  \/ Remove

SpecProbe == InitProbe /\ [][NextProbe]_vars

(***************************************************************************)
(* Properties of cssDimensionsToPx                                         *)
(***************************************************************************)
\* C1: when cssDimensionsToPx returns normally the render tree holds exactly
\* the nodes it held before the call, and the probe is not among them.
C1_ReturnLeavesTreeAsBefore ==
  pc = "returned" =>
    /\ tree = before
    /\ div.id \notin tree
    /\ Cardinality(tree) = Cardinality(before)

C1_Witness ==
  /\ pc = "returned"
  /\ before # {}
  /\ tree = before
  /\ result = <<Num(100), Num(200)>>

\* C2: the probe is detached when the call ends, on an exceptional exit as
\* well as on a normal return.
C2_ProbeDetachedOnEveryExit ==
  pc \in {"returned", "thrown"} => div.id \notin tree

\* C3: with document.body null the call fails with the "environment
\* unavailable" error and has attached nothing.
C3_NullBodyFailsWithUnavailable ==
  (pc \in {"attached", "measured", "returned", "thrown"} /\ ~body) =>
    /\ pc = "thrown"
    /\ error = Unavailable
    /\ tree = before

\* C4: the pair returned is the platform's pixel value of the two requested
\* lengths, in (width, height) order, whatever the style sheets give a div.
C4_ReturnsResolvedLengths ==
  (pc = "returned" /\ ResolveLength(args[1]).valid /\ ResolveLength(args[2]).valid) =>
    result = <<Num(ResolveLength(args[1]).v), Num(ResolveLength(args[2]).v)>>

====
